---------------------------- MODULE Spec2Model ----------------------------
(***************************************************************************)
(* Model of app/models/models.py: the four record types User, Booking,     *)
(* Order and OrderItem with their field declarations, and the operations   *)
(* the declarations give meaning to: creating a record and assigning a     *)
(* field of an existing record.                                            *)
(*                                                                         *)
(* Each declaration is read with its documented meaning:                   *)
(*   - the annotation, max_length, ge, max_digits and decimal_places are   *)
(*     checked by the field validator; the validator runs on the values    *)
(*     passed at creation, and on assignment only for a model whose        *)
(*     Config sets validate_assignment (Order alone);                      *)
(*   - default / default_factory fill a field that is not passed at        *)
(*     creation, without validation;                                       *)
(*   - primary_key and foreign_key are relational constraints, checked     *)
(*     whenever a record is written (creation and assignment alike).       *)
(* An operation is the construction or mutation together with its write.   *)
(*                                                                         *)
(* Fields modelled: those the checked properties speak about.  The other   *)
(* free-text and timestamp columns carry no constraint that interacts      *)
(* with them and are left out.                                             *)
(***************************************************************************)
EXTENDS Integers, Sequences, FiniteSets, TLC

VARIABLES users, bookings, orders, items, last

vars == <<users, bookings, orders, items, last>>

---------------------------------------------------------------------------
(* Bounds of the model *)

\* total number of records over the four tables
MaxRecords == 3
\* size of the pool uuid.uuid4 and callers draw identifiers from
NumUUIDs == 2
\* rows per table in the specifications that vary field values
MaxRows == 1

---------------------------------------------------------------------------
(* Python values *)

None == [tag |-> "None"]
Str(s) == [tag |-> "str", s |-> s]
PyInt(n) == [tag |-> "int", n |-> n]
\* decimal.Decimal, as Decimal.as_tuple() gives it: the digits and the exponent
Decimal(digits, exponent) == [tag |-> "Decimal", digits |-> digits, exponent |-> exponent]
\* a float, written as the decimal literal digits * 10^exponent
Float(digits, exponent) == [tag |-> "float", digits |-> digits, exponent |-> exponent]
UUID(n) == [tag |-> "UUID", n |-> n]

UUIDs == {UUID(n) : n \in 1..NumUUIDs}

\* Strings one longer than a declared max_length
Pad4 == "xxxx"
Pad20 == Pad4 \o Pad4 \o Pad4 \o Pad4 \o Pad4
Pad100 == Pad20 \o Pad20 \o Pad20 \o Pad20 \o Pad20
Str101 == Pad100 \o "x"
Str256 == Pad100 \o Pad100 \o Pad20 \o Pad20 \o Pad4 \o Pad4 \o Pad4 \o Pad4

---------------------------------------------------------------------------
(* Enumerations *)

BookingStatus == {"pending", "confirmed", "cancelled", "completed"}

OrderStatus == {"pending", "confirmed", "in_progress", "ready", "completed",
                "cancelled", "refunded"}

OrderType == {"pickup", "delivery", "dine_in", "online", "in_store", "service"}

PaymentStatus == {"pending", "paid", "failed", "refunded"}

EnumTypes == {"BookingStatus", "OrderStatus", "OrderType", "PaymentStatus"}

EnumValues(type) ==
    CASE type = "BookingStatus" -> BookingStatus
      [] type = "OrderStatus" -> OrderStatus
      [] type = "OrderType" -> OrderType
      [] type = "PaymentStatus" -> PaymentStatus
      [] OTHER -> {}

---------------------------------------------------------------------------
(* Field declarations *)

\* Field(...) of a required field of the given annotation, no constraint
Field(type) ==
    [type |-> type, optional |-> FALSE, required |-> TRUE, default |-> None,
     default_factory |-> FALSE, max_length |-> {}, ge |-> {},
     max_digits |-> {}, decimal_places |-> {}, foreign_key |-> "",
     primary_key |-> FALSE]

\* id: uuid.UUID = Field(default_factory=uuid.uuid4, primary_key=True)
IdField ==
    [Field("UUID") EXCEPT !.required = FALSE, !.default_factory = TRUE,
                          !.primary_key = TRUE]

\* user_id declared without Optional and without a default
UserIdFieldRequired == [Field("UUID") EXCEPT !.foreign_key = "user"]

\* Optional[uuid.UUID] = Field(default=None, foreign_key="user.id")
UserIdField ==
    [Field("UUID") EXCEPT !.optional = TRUE, !.required = FALSE,
                          !.foreign_key = "user"]

\* str = Field(max_length=n)
StrField(n) == [Field("str") EXCEPT !.max_length = {n}]

\* an enumeration field with its default member
EnumField(type, default) ==
    [Field(type) EXCEPT !.required = FALSE, !.default = Str(default)]

\* Decimal = Field(max_digits=10, decimal_places=2)
MoneyField == [Field("Decimal") EXCEPT !.max_digits = {10}, !.decimal_places = {2}]

\* Decimal = Field(default=0, max_digits=10, decimal_places=2)
MoneyFieldDefault0 == [MoneyField EXCEPT !.required = FALSE, !.default = PyInt(0)]

\* Optional[float] = Field(default=None)
PriceField == [Field("float") EXCEPT !.optional = TRUE, !.required = FALSE]

\* order_id declared without its foreign key
OrderIdFieldNoForeignKey == Field("UUID")

\* order_id: uuid.UUID = Field(foreign_key="order.id")
OrderIdField == [Field("UUID") EXCEPT !.foreign_key = "order"]

\* quantity declared with a default its own bound excludes
QuantityFieldDefault0 ==
    [Field("int") EXCEPT !.required = FALSE, !.default = PyInt(0), !.ge = {1}]

\* quantity: int = Field(default=1, ge=1)
QuantityField ==
    [Field("int") EXCEPT !.required = FALSE, !.default = PyInt(1), !.ge = {1}]

\* country: Optional[str] = Field(max_length=100, default="US")
CountryField ==
    [Field("str") EXCEPT !.optional = TRUE, !.required = FALSE,
                         !.default = Str("US"), !.max_length = {100}]

UserFields ==
    [id |-> IdField,
     name |-> StrField(100)]

BookingFields ==
    [id |-> IdField,
     client_name |-> StrField(255),
     status |-> EnumField("BookingStatus", "pending"),
     user_id |-> UserIdField,
     estimated_price |-> PriceField,
     final_price |-> PriceField]

OrderFields ==
    [id |-> IdField,
     user_id |-> UserIdField,
     customer_name |-> StrField(255),
     country |-> CountryField,
     order_type |-> EnumField("OrderType", "pickup"),
     subtotal |-> MoneyField,
     tax_amount |-> MoneyFieldDefault0,
     service_fee |-> MoneyFieldDefault0,
     discount_amount |-> MoneyFieldDefault0,
     tip_amount |-> MoneyFieldDefault0,
     total_amount |-> MoneyField,
     status |-> EnumField("OrderStatus", "pending"),
     payment_status |-> EnumField("PaymentStatus", "pending")]

OrderItemFields ==
    [id |-> IdField,
     order_id |-> OrderIdField,
     item_name |-> StrField(255),
     quantity |-> QuantityField,
     unit_price |-> MoneyField,
     total_price |-> MoneyField]

Models == {"User", "Booking", "Order", "OrderItem"}

Schema(model) ==
    CASE model = "User" -> UserFields
      [] model = "Booking" -> BookingFields
      [] model = "Order" -> OrderFields
      [] model = "OrderItem" -> OrderItemFields

\* no model sets validate_assignment
ValidateAssignmentNowhere(model) == FALSE

\* class Config: validate_assignment = True  (declared by Order only)
ValidateAssignment(model) == model = "Order"

---------------------------------------------------------------------------
(* The field validator *)

\* the digit tuple of a non-negative int, as Decimal(n).as_tuple().digits
RECURSIVE DigitsOf(_)
DigitsOf(n) == IF n < 10 THEN <<n>> ELSE Append(DigitsOf(n \div 10), n % 10)

\* the annotation accepts the value (None only where the field is Optional)
TypeOk(field, v) ==
    CASE v.tag = "None" -> field.optional
      [] field.type = "str" -> v.tag = "str"
      [] field.type = "int" -> v.tag = "int"
      [] field.type = "Decimal" -> v.tag \in {"Decimal", "int"}
      [] field.type = "float" -> v.tag \in {"float", "int"}
      [] field.type = "UUID" -> v.tag = "UUID"
      [] field.type \in EnumTypes -> v.tag = "str" /\ v.s \in EnumValues(field.type)
      [] OTHER -> FALSE

\* the value the validator hands on: an int becomes the Decimal or float of
\* the same value, every other accepted value is kept as it is
Coerce(field, v) ==
    IF v.tag = "int" /\ v.n >= 0 /\ field.type = "Decimal"
    THEN Decimal(DigitsOf(v.n), 0)
    ELSE IF v.tag = "int" /\ v.n >= 0 /\ field.type = "float"
    THEN Float(DigitsOf(v.n), 0)
    ELSE v

\* max_length
MaxLengthOk(field, v) ==
    v.tag = "str" => \A m \in field.max_length : Len(v.s) <= m

\* ge
GeOk(field, v) ==
    v.tag = "int" => \A g \in field.ge : v.n >= g

\* max_digits / decimal_places of a Decimal
DecimalOk(field, v) ==
    v.tag = "Decimal" =>
        LET n == Len(v.digits)
            digits == IF v.exponent >= 0 THEN n + v.exponent
                      ELSE IF -v.exponent > n THEN -v.exponent ELSE n
            decimals == IF v.exponent >= 0 THEN 0 ELSE -v.exponent
            whole == digits - decimals
        IN /\ \A m \in field.max_digits : digits <= m
           /\ \A d \in field.decimal_places : decimals <= d
           /\ \A m \in field.max_digits : \A d \in field.decimal_places :
                  whole <= m - d

\* the validator accepts v for the field
FieldOk(field, v) ==
    /\ TypeOk(field, v)
    /\ LET c == Coerce(field, v)
       IN MaxLengthOk(field, c) /\ GeOk(field, c) /\ DecimalOk(field, c)

---------------------------------------------------------------------------
(* Tables and relational constraints *)

Table(model) ==
    CASE model = "User" -> users
      [] model = "Booking" -> bookings
      [] model = "Order" -> orders
      [] model = "OrderItem" -> items

Rows(table) == 1..Len(table)

NumRecords == Len(users) + Len(bookings) + Len(orders) + Len(items)

\* foreign_key="user.id" / "order.id": an absent reference only where the
\* column is nullable, a present one must be the id of a row of the target
ForeignKeyOk(field, v) ==
    \/ field.foreign_key = ""
    \/ v = None /\ field.optional
    \/ LET target == IF field.foreign_key = "user" THEN users ELSE orders
       IN \E i \in Rows(target) : target[i].id = v

\* primary_key=True: a UUID no other row of the table has
PrimaryKeyOk(model, obj, v) ==
    /\ v.tag = "UUID"
    /\ \A i \in Rows(Table(model)) : i # obj => Table(model)[i].id # v

\* a row of another table refers to this id
Referenced(model, id) ==
    \/ /\ model = "User"
       /\ \/ \E i \in Rows(bookings) : bookings[i].user_id = id
          \/ \E i \in Rows(orders) : orders[i].user_id = id
    \/ /\ model = "Order"
       /\ \E i \in Rows(items) : items[i].order_id = id

\* the write of one table, the others untouched
Write(model, table) ==
    /\ users' = IF model = "User" THEN table ELSE users
    /\ bookings' = IF model = "Booking" THEN table ELSE bookings
    /\ orders' = IF model = "Order" THEN table ELSE orders
    /\ items' = IF model = "OrderItem" THEN table ELSE items

---------------------------------------------------------------------------
(* Creation *)

\* no keyword argument
NoArgs == [f \in {} |-> None]

Supplied(kw) == DOMAIN kw

\* the record Model(**kw) builds; u is what uuid.uuid4() returns
Construct(model, kw, u) ==
    [f \in DOMAIN Schema(model) |->
        IF f \in Supplied(kw) THEN Coerce(Schema(model)[f], kw[f])
        ELSE IF Schema(model)[f].default_factory THEN u
        ELSE Schema(model)[f].default]

\* every supplied value validates and no required field is missing
Validates(model, kw) ==
    \A f \in DOMAIN Schema(model) :
        IF f \in Supplied(kw) THEN FieldOk(Schema(model)[f], kw[f])
        ELSE ~Schema(model)[f].required

\* the new row satisfies the primary key and the foreign keys
Insertable(model, row) ==
    \A f \in DOMAIN Schema(model) :
        /\ Schema(model)[f].primary_key => PrimaryKeyOk(model, 0, row[f])
        /\ ForeignKeyOk(Schema(model)[f], row[f])

Create(model, kw, u) ==
    /\ NumRecords < MaxRecords
    /\ Supplied(kw) \subseteq DOMAIN Schema(model)
    /\ LET row == Construct(model, kw, u)
           ok == Validates(model, kw) /\ Insertable(model, row)
       IN /\ Write(model, IF ok THEN Append(Table(model), row) ELSE Table(model))
          /\ last' = [op |-> "create", model |-> model,
                      obj |-> IF ok THEN Len(Table(model)) + 1 ELSE 0,
                      kw |-> kw, uuid |-> u, old |-> None, ok |-> ok]

CreateUser(kw, u) == Create("User", kw, u)
CreateBooking(kw, u) == Create("Booking", kw, u)
CreateOrder(kw, u) == Create("Order", kw, u)
CreateOrderItem(kw, u) == Create("OrderItem", kw, u)

---------------------------------------------------------------------------
(* Assignment: record.f = v *)

\* what the attribute holds after an accepted assignment
Stored(model, f, v) ==
    IF ValidateAssignment(model) THEN Coerce(Schema(model)[f], v) ELSE v

\* an acceptance rule that ties an Order's status to its payment_status: an
\* Order is completed only once paid, and paid stays paid while completed
AssignableCrossChecked(model, obj, f, v) ==
    LET field == Schema(model)[f]
        old == Table(model)[obj]
    IN /\ ValidateAssignment(model) => FieldOk(field, v)
       /\ ForeignKeyOk(field, v)
       /\ field.primary_key =>
              /\ PrimaryKeyOk(model, obj, v)
              /\ v # old.id => ~Referenced(model, old.id)
       /\ (model = "Order" /\ f = "status" /\ v = Str("completed"))
              => old.payment_status = Str("paid")
       /\ (model = "Order" /\ f = "payment_status" /\ v # Str("paid"))
              => old.status # Str("completed")

\* an acceptance rule with terminal statuses: nothing follows cancelled or
\* completed
AssignableTerminal(model, obj, f, v) ==
    LET field == Schema(model)[f]
        old == Table(model)[obj]
    IN /\ ValidateAssignment(model) => FieldOk(field, v)
       /\ ForeignKeyOk(field, v)
       /\ field.primary_key =>
              /\ PrimaryKeyOk(model, obj, v)
              /\ v # old.id => ~Referenced(model, old.id)
       /\ f = "status" => old.status \notin {Str("cancelled"), Str("completed")}

\* the assignment is accepted
Assignable(model, obj, f, v) ==
    LET field == Schema(model)[f]
        old == Table(model)[obj]
    IN /\ ValidateAssignment(model) => FieldOk(field, v)
       /\ ForeignKeyOk(field, v)
       /\ field.primary_key =>
              /\ PrimaryKeyOk(model, obj, v)
              /\ v # old.id => ~Referenced(model, old.id)

Assign(model, obj, f, v) ==
    /\ obj \in Rows(Table(model))
    /\ f \in DOMAIN Schema(model)
    /\ LET ok == Assignable(model, obj, f, v)
       IN /\ Write(model, IF ok
                          THEN [Table(model) EXCEPT ![obj][f] = Stored(model, f, v)]
                          ELSE Table(model))
          /\ last' = [op |-> "assign", model |-> model, obj |-> obj,
                      kw |-> (f :> v), uuid |-> None,
                      old |-> Table(model)[obj][f], ok |-> ok]

AssignUser(obj, f, v) == Assign("User", obj, f, v)
AssignBooking(obj, f, v) == Assign("Booking", obj, f, v)
AssignOrder(obj, f, v) == Assign("Order", obj, f, v)
AssignOrderItem(obj, f, v) == Assign("OrderItem", obj, f, v)

---------------------------------------------------------------------------
(* Initial state *)

Init ==
    /\ users = <<>>
    /\ bookings = <<>>
    /\ orders = <<>>
    /\ items = <<>>
    /\ last = [op |-> "none", model |-> "", obj |-> 0, kw |-> NoArgs,
               uuid |-> None, old |-> None, ok |-> TRUE]

---------------------------------------------------------------------------
(* Inputs *)

\* one optional keyword argument: left out, or one of the values
Opt(f, values) == {NoArgs} \cup {f :> v : v \in values}

\* 10.00, 3.50
Money1000 == Decimal(<<1, 0, 0, 0>>, -2)
Money350 == Decimal(<<3, 5, 0>>, -2)

UserKwargs == {NoArgs, [name |-> Str("Ann")]}

BookingKwargs ==
    {[client_name |-> Str("Bob")] @@ a : a \in Opt("user_id", {None} \cup UUIDs)}

OrderKwargs ==
    {a @@ [subtotal |-> Money1000, total_amount |-> Money1000] @@ b :
        a \in Opt("customer_name", {Str("Ann")}),
        b \in Opt("user_id", {None} \cup UUIDs)}

OrderItemKwargs ==
    {[item_name |-> Str("Coffee"), unit_price |-> Money350,
      total_price |-> Money350] @@ a : a \in Opt("order_id", UUIDs)}

\* the (field, value) pairs assigned in Spec
RefAssignments(model) ==
    ({"id"} \X UUIDs)
    \cup (IF model \in {"Booking", "Order"}
          THEN {"user_id"} \X ({None} \cup UUIDs) ELSE {})
    \cup (IF model = "OrderItem"
          THEN {"order_id"} \X ({None} \cup UUIDs) ELSE {})

---------------------------------------------------------------------------
(* Specification: creations of the four record types, and assignments of   *)
(* the identifier and reference fields                                     *)

Next ==
    \/ \E kw \in UserKwargs, u \in UUIDs : CreateUser(kw, u)
    \/ \E kw \in BookingKwargs, u \in UUIDs : CreateBooking(kw, u)
    \/ \E kw \in OrderKwargs, u \in UUIDs : CreateOrder(kw, u)
    \/ \E kw \in OrderItemKwargs, u \in UUIDs : CreateOrderItem(kw, u)
    \/ \E obj \in Rows(users), a \in RefAssignments("User") :
           AssignUser(obj, a[1], a[2])
    \/ \E obj \in Rows(bookings), a \in RefAssignments("Booking") :
           AssignBooking(obj, a[1], a[2])
    \/ \E obj \in Rows(orders), a \in RefAssignments("Order") :
           AssignOrder(obj, a[1], a[2])
    \/ \E obj \in Rows(items), a \in RefAssignments("OrderItem") :
           AssignOrderItem(obj, a[1], a[2])

Spec == Init /\ [][Next]_vars

---------------------------------------------------------------------------
(* Specification: an Order's status and payment_status                     *)

GuestOrder ==
    [customer_name |-> Str("Ann"), subtotal |-> Money1000,
     total_amount |-> Money1000]

StatusKwargs ==
    {GuestOrder @@ a @@ b :
        a \in Opt("status", {Str("completed"), Str("shipped")}),
        b \in Opt("payment_status", {Str("failed")})}

StatusAssignments ==
    ({"status"} \X ({Str(x) : x \in OrderStatus} \cup {Str("shipped"), None}))
    \cup ({"payment_status"} \X ({Str(x) : x \in PaymentStatus}
                                  \cup {Str("shipped")}))

NextStatus ==
    \/ \E kw \in StatusKwargs, u \in UUIDs :
           Len(orders) < MaxRows /\ CreateOrder(kw, u)
    \/ \E obj \in Rows(orders), a \in StatusAssignments :
           AssignOrder(obj, a[1], a[2])

SpecStatus == Init /\ [][NextStatus]_vars

---------------------------------------------------------------------------
(* Specification: the constrained fields of an Order                       *)

\* 99999999.99: 8 integer digits, 2 fractional
MoneyMax == Decimal(<<9, 9, 9, 9, 9, 9, 9, 9, 9, 9>>, -2)
\* 1.005: 3 fractional digits
Money3Places == Decimal(<<1, 0, 0, 5>>, -3)
\* 0.001: 3 fractional digits, fewer digits than places
MoneyMilli == Decimal(<<1>>, -3)
\* 123456789: 9 integer digits
Money9Whole == Decimal(<<1, 2, 3, 4, 5, 6, 7, 8, 9>>, 0)
\* 100000000.0: 10 digits, 9 of them integer
Money9Whole1Place == Decimal(<<1, 0, 0, 0, 0, 0, 0, 0, 0, 0>>, -1)
\* 1E+8: 9 integer digits, one digit in the tuple
Money1E8 == Decimal(<<1>>, 8)

OrderKwargsValues ==
    {GuestOrder} \cup
    {GuestOrder @@ a :
        a \in {[country |-> Str(Str101)], [tax_amount |-> Money3Places],
               [status |-> Str("shipped")], [subtotal |-> Money9Whole],
               [tax_amount |-> PyInt(5)], [country |-> None]}}

OrderAssignments ==
    ({"customer_name"} \X {Str(Str256), None})
    \cup ({"country"} \X {Str("MX"), Str("US"), Str(Str101), PyInt(1)})
    \cup ({"subtotal"} \X {Money1000, MoneyMax, Money3Places, MoneyMilli,
                            Money9Whole, Money9Whole1Place, Money1E8,
                            Str("ten"), None})
    \cup ({"tax_amount"} \X {PyInt(5), Money3Places, Money9Whole})
    \cup ({"status"} \X {Str("pending"), Str("confirmed"), Str("shipped"),
                          PyInt(1)})
    \cup ({"order_type"} \X {Str("express")})
    \cup ({"payment_status"} \X {Str("unpaid")})

NextOrder ==
    \/ \E kw \in OrderKwargsValues, u \in UUIDs :
           Len(orders) < MaxRows /\ CreateOrder(kw, u)
    \/ \E obj \in Rows(orders), a \in OrderAssignments :
           AssignOrder(obj, a[1], a[2])

SpecOrder == Init /\ [][NextOrder]_vars

---------------------------------------------------------------------------
(* Specification: a Booking's status and prices                            *)

\* 19.999 as a float
Price3Places == Float(<<1, 9, 9, 9, 9>>, -3)

BookingKwargsValues ==
    {[client_name |-> Str("Bob")] @@ a @@ b :
        a \in Opt("status", {Str("confirmed"), Str("archived")}),
        b \in Opt("estimated_price", {Price3Places})}

BookingAssignments ==
    ({"status"} \X ({Str(x) : x \in BookingStatus} \cup {Str("archived")}))
    \cup ({"final_price"} \X {None, Price3Places})

NextBooking ==
    \/ \E kw \in BookingKwargsValues, u \in UUIDs :
           Len(bookings) < MaxRows /\ CreateBooking(kw, u)
    \/ \E obj \in Rows(bookings), a \in BookingAssignments :
           AssignBooking(obj, a[1], a[2])

SpecBooking == Init /\ [][NextBooking]_vars

---------------------------------------------------------------------------
(* Specification: an OrderItem's quantity and prices                       *)

CoffeeItem ==
    [item_name |-> Str("Coffee"), unit_price |-> Money350,
     total_price |-> Money350]

ItemKwargsValues ==
    {CoffeeItem @@ a @@ b :
        a \in Opt("order_id", UUIDs),
        b \in Opt("quantity", {PyInt(2), PyInt(0), PyInt(-1)})}
    \cup {[unit_price |-> Money3Places] @@ CoffeeItem @@ a :
             a \in Opt("order_id", UUIDs)}

ItemAssignments ==
    ({"quantity"} \X {PyInt(3), PyInt(0), PyInt(-1)})
    \cup ({"unit_price"} \X {Money1000, Money3Places})

NextItem ==
    \/ \E u \in UUIDs : Len(orders) < MaxRows /\ CreateOrder(GuestOrder, u)
    \/ \E kw \in ItemKwargsValues, u \in UUIDs :
           Len(items) < MaxRows /\ CreateOrderItem(kw, u)
    \/ \E obj \in Rows(items), a \in ItemAssignments :
           AssignOrderItem(obj, a[1], a[2])

SpecItem == Init /\ [][NextItem]_vars

---------------------------------------------------------------------------
(* Properties *)

Created(model) == last.op = "create" /\ last.model = model
CreatedOk(model) == Created(model) /\ last.ok
Omitted(f) == f \notin DOMAIN last.kw
Passed(f) == f \in DOMAIN last.kw

\* the amount is numerically zero
IsZeroAmount(v) ==
    \/ v.tag = "int" /\ v.n = 0
    \/ v.tag = "Decimal" /\ \A i \in 1..Len(v.digits) : v.digits[i] = 0

C2_QuantityAtLeastOne ==
    /\ \A i \in Rows(items) :
           items[i].quantity.tag = "int" /\ items[i].quantity.n >= 1
    /\ (last.model = "OrderItem" /\ Passed("quantity")
            /\ last.kw.quantity.tag = "int" /\ last.kw.quantity.n <= 0)
           => ~last.ok

\* C3: creating an OrderItem whose order_id is missing or is not the id of
\* an existing Order is rejected, and every OrderItem's order_id is the id
\* of an existing Order.
C3_OrderIdRefersToOrder ==
    /\ \A i \in Rows(items) :
           \E o \in Rows(orders) : orders[o].id = items[i].order_id
    /\ (Created("OrderItem")
            /\ (Omitted("order_id")
                   \/ \A o \in Rows(orders) : orders[o].id # last.kw.order_id))
           => ~last.ok /\ last.obj = 0

\* an OrderItem naming an unknown order was refused while an Order and an
\* OrderItem of that Order exist
C3_Witness ==
    /\ Created("OrderItem") /\ ~last.ok
    /\ Passed("order_id")
    /\ Len(orders) = 1 /\ orders[1].id # last.kw.order_id
    /\ Len(items) = 1 /\ items[1].order_id = orders[1].id
    /\ items[1].id # last.uuid

\* digits after and before the decimal point of a stored number
FractionalDigits(v) ==
    IF v.tag \in {"Decimal", "float"} /\ v.exponent < 0 THEN -v.exponent ELSE 0

IntegerDigits(v) ==
    IF v.tag \in {"Decimal", "float"}
    THEN (IF Len(v.digits) + v.exponent > 0 THEN Len(v.digits) + v.exponent ELSE 0)
    ELSE IF v.tag = "int" THEN Len(DigitsOf(v.n)) ELSE 0

WithinMoneyDigits(v) == FractionalDigits(v) <= 2 /\ IntegerDigits(v) <= 8

MoneyFieldNames ==
    {"subtotal", "tax_amount", "service_fee", "discount_amount", "tip_amount",
     "total_amount", "unit_price", "total_price", "estimated_price",
     "final_price"}

\* C4: every monetary field (of Order, OrderItem and Booking) rejects a value
\* with more than 2 fractional or more than 8 integer digits, so no stored
\* monetary value has more.
C4_MoneyDigits ==
    /\ \A i \in Rows(orders) :
           \A f \in {"subtotal", "tax_amount", "service_fee", "discount_amount",
                     "tip_amount", "total_amount"} :
               WithinMoneyDigits(orders[i][f])
    /\ \A i \in Rows(items) :
           \A f \in {"unit_price", "total_price"} : WithinMoneyDigits(items[i][f])
    /\ \A i \in Rows(bookings) :
           \A f \in {"estimated_price", "final_price"} :
               WithinMoneyDigits(bookings[i][f])
    /\ \A f \in MoneyFieldNames :
           (last.op = "assign" /\ Passed(f)
                /\ last.kw[f].tag \in {"Decimal", "float"})
               => (last.ok <=> WithinMoneyDigits(last.kw[f]))

AssignedNext(model, f) ==
    last'.op = "assign" /\ last'.model = model /\ f \in DOMAIN last'.kw

IsMember(v, members) == v.tag = "str" /\ v.s \in members

\* C5: an Order's status and payment_status are independently assignable:
\* an assignment of any OrderStatus value to status, or of any PaymentStatus
\* value to payment_status, is accepted whatever the other field holds, and
\* leaves the other field as it was.
C5_StatusIndependent ==
    [][/\ (AssignedNext("Order", "status")
              /\ IsMember(last'.kw.status, OrderStatus))
          => /\ last'.ok
             /\ orders'[last'.obj].status = last'.kw.status
             /\ orders'[last'.obj].payment_status = orders[last'.obj].payment_status
       /\ (AssignedNext("Order", "payment_status")
              /\ IsMember(last'.kw.payment_status, PaymentStatus))
          => /\ last'.ok
             /\ orders'[last'.obj].payment_status = last'.kw.payment_status
             /\ orders'[last'.obj].status = orders[last'.obj].status
      ]_vars

\* payment_status was set to paid on an Order whose status had been set to
\* refunded: neither is a value a creation of this specification passes
C5_Witness ==
    /\ last.op = "assign" /\ last.model = "Order" /\ last.ok
    /\ last.kw = [payment_status |-> Str("paid")]
    /\ last.old = Str("failed")
    /\ orders[last.obj].status = Str("refunded")
    /\ orders[last.obj].payment_status = Str("paid")

\* the identifiers of the rows of a table other than row obj
OtherIds(table, obj) == {table[i].id : i \in Rows(table) \ {obj}}

RequiredArgs(model) ==
    IF model = "Booking" THEN {"client_name"}
    ELSE {"customer_name", "subtotal", "total_amount"}

\* C6: creating a Booking or an Order without user_id succeeds and stores
\* user_id as None; a user_id that is passed must be the id of an existing
\* User, otherwise the creation is rejected.  (A creation may still be
\* refused for a missing required field or a generated id already in use.)
C6_GuestOrExistingUser ==
    \A model \in {"Booking", "Order"} :
        /\ (Created(model) /\ Omitted("user_id")
                /\ RequiredArgs(model) \subseteq DOMAIN last.kw
                /\ last.uuid \notin OtherIds(Table(model), last.obj))
               => last.ok /\ Table(model)[last.obj].user_id = None
        /\ (Created(model) /\ Passed("user_id") /\ last.kw.user_id # None
                /\ last.kw.user_id \notin OtherIds(users, 0))
               => ~last.ok
        /\ \A i \in Rows(Table(model)) :
               Table(model)[i].user_id \in {None} \cup OtherIds(users, 0)

\* a guest Order was created while a User and a guest Booking exist
C6_Witness ==
    /\ CreatedOk("Order") /\ Omitted("user_id")
    /\ orders[last.obj].user_id = None
    /\ Len(users) = 1
    /\ Len(bookings) = 1 /\ bookings[1].user_id = None

UniqueIds(table) ==
    \A i, j \in Rows(table) : table[i].id = table[j].id => i = j

\* C7: for every record type the id is unique among the records of the
\* type and never changes: no step of creation or assignment changes the
\* id of an existing record.
C7_IdUniqueAndStable ==
    [][/\ UniqueIds(users') /\ UniqueIds(bookings')
       /\ UniqueIds(orders') /\ UniqueIds(items')
       /\ \A i \in Rows(users) : users'[i].id = users[i].id
       /\ \A i \in Rows(bookings) : bookings'[i].id = bookings[i].id
       /\ \A i \in Rows(orders) : orders'[i].id = orders[i].id
       /\ \A i \in Rows(items) : items'[i].id = items[i].id
      ]_vars

\* the value breaks the declared type, length, precision or enumeration of
\* the Order field
Violates(f, v) ==
    CASE f = "customer_name" -> ~(v.tag = "str" /\ Len(v.s) <= 255)
      [] f = "country" -> ~(v = None \/ (v.tag = "str" /\ Len(v.s) <= 100))
      [] f \in MoneyFieldNames ->
             ~(v.tag \in {"Decimal", "int"} /\ WithinMoneyDigits(v))
      [] f = "status" -> ~IsMember(v, OrderStatus)
      [] f = "order_type" -> ~IsMember(v, OrderType)
      [] f = "payment_status" -> ~IsMember(v, PaymentStatus)
      [] OTHER -> FALSE

\* the Decimal of an amount given as an int; any other value itself
AsGiven(v) == IF v.tag = "int" THEN Decimal(DigitsOf(v.n), 0) ELSE v

\* C8: an assignment to a field of an existing Order is validated against
\* the field's type, length, precision and enumeration: a violating value is
\* reported as an error and leaves every field of every Order as it was; any
\* other value is stored as given (an int amount as the Decimal of the same
\* digits), and only in the assigned field.
C8_AssignmentValidated ==
    [][(last'.op = "assign" /\ last'.model = "Order") =>
          \A f \in DOMAIN last'.kw :
              IF Violates(f, last'.kw[f])
              THEN ~last'.ok /\ orders' = orders
              ELSE /\ last'.ok
                   /\ orders' = [orders EXCEPT
                                     ![last'.obj][f] = AsGiven(last'.kw[f])]
      ]_vars

\* an assignment of 1.005 to subtotal was refused and the Order still holds
\* the valid amount assigned before it
C8_Witness ==
    /\ last.op = "assign" /\ last.model = "Order" /\ ~last.ok
    /\ last.kw = [subtotal |-> Money3Places]
    /\ orders[last.obj].subtotal = MoneyMax
    /\ orders[last.obj].country = Str("MX")

\* C9: every enumerated field holds a value of its closed set, and creating
\* or assigning with a value outside the set is rejected.
C9_EnumsClosed ==
    /\ \A i \in Rows(bookings) : IsMember(bookings[i].status, BookingStatus)
    /\ \A i \in Rows(orders) :
           /\ IsMember(orders[i].status, OrderStatus)
           /\ IsMember(orders[i].order_type, OrderType)
           /\ IsMember(orders[i].payment_status, PaymentStatus)
    /\ (last.model = "Booking" /\ Passed("status")
            /\ ~IsMember(last.kw.status, BookingStatus))
           => ~last.ok

\* C10: Booking status transitions are unconstrained: a Booking created
\* without a status is pending, and an assignment of any BookingStatus value
\* is accepted from every status, cancelled and completed included.
C10_BookingStatusUnconstrained ==
    [][/\ (last'.op = "create" /\ last'.model = "Booking" /\ last'.ok
              /\ "status" \notin DOMAIN last'.kw)
          => bookings'[last'.obj].status = Str("pending")
       /\ (AssignedNext("Booking", "status")
              /\ IsMember(last'.kw.status, BookingStatus))
          => /\ last'.ok
             /\ last'.old = bookings[last'.obj].status
             /\ bookings'[last'.obj].status = last'.kw.status
      ]_vars

\* a cancelled Booking was set back to pending
C10_Witness ==
    /\ last.op = "assign" /\ last.model = "Booking" /\ last.ok
    /\ last.kw = [status |-> Str("pending")]
    /\ last.old = Str("cancelled")
    /\ bookings[last.obj].status = Str("pending")

=============================================================================
